---- MODULE Spec2Model ----
(***************************************************************************)
(* The circuits of src/src.                                                *)
(*                                                                         *)
(* decompose_range_check.rs, the decomposed range check: the 'decompose'   *)
(* gate and the lookup declared by configure, the witness written by       *)
(* assign_value and assign_decomposed_values, the driver synthesize, and   *)
(* the verdict the prover's verify derives from the assigned grid. Its     *)
(* field elements are modelled as naturals: every u128 the assigner        *)
(* writes, and every sum the gate forms over at most 8 weighted cells, is  *)
(* far below the Pasta modulus (about 2^254), so field arithmetic and      *)
(* integer arithmetic agree on all values of the model.                    *)
(*                                                                         *)
(* range_check/range_check.rs (brute-force range check),                   *)
(* fibonacci_lecture_2.rs and example1.rs (three-column Fibonacci) and     *)
(* fib_lec2_part2.rs (single-column Fibonacci): each with its own state    *)
(* and its own specification. Their cells are elements of a prime field    *)
(* of FieldModulus elements.                                               *)
(***************************************************************************)
EXTENDS Integers, FiniteSets, Sequences, TLC

\* ------------------------------------------------------------------ bounds

\* Largest private input the driver is run on.
MaxValue == 520
\* Rows of the grid (the prover's 2^k rows).
NumRows == 10
\* Substrate calls that may return Err in one run (SpecFaults).
MaxFaults == 2
\* Largest input of a run in which substrate calls may fail (SpecFaults).
MaxFaultValue == 9
\* Configurations of SpecConfig: digit widths 1..MaxNumBits, 0..MaxParts windows.
MaxNumBits == 16
MaxParts == 9
\* Deviating prover (SpecWitness): it starts from the assigner's witness of an
\* input within WitnessSpan of RANGE, overwrites at most MaxTamper cells, and
\* writes values up to LOOKUP_RANGE + TamperExcess.
WitnessSpan == 1
MaxTamper == 1
TamperExcess == 1
\* Brute-force range check: values 0..MaxBruteValue, RANGE in 1..MaxBruteRange.
MaxBruteValue == 24
MaxBruteRange == 12
\* Fibonacci circuits: the two seeds range over 0..MaxSeed.
MaxSeed == 4
\* Single-column Fibonacci: the third public input ranges over 0..MaxOut.
MaxOut == 60

\* ------------------------------------------------------- program constants

RANGE == 64
NUM_BITS == 3
LOOKUP_RANGE == 8
\* for _i in 3..10 (fibonacci_lecture_2.rs, example1.rs)
LoopFrom == 3
LoopTo == 10
\* chip.assign(.., 10) and chip.expose_public(.., &output, 2) (fib_lec2_part2.rs)
nrows == 10
OutRow == 2

\* The constants of the build under src/.
SourceConsts == [RANGE |-> RANGE, NUM_BITS |-> NUM_BITS, LOOKUP_RANGE |-> LOOKUP_RANGE]

\* The build of the concrete scenario: RANGE=16, LOOKUP_RANGE=4, digit width 2.
ScenarioConsts == [RANGE |-> 16, NUM_BITS |-> 2, LOOKUP_RANGE |-> 4]

VARIABLES
    consts,                 \* the build's RANGE, NUM_BITS, LOOKUP_RANGE
    value,                  \* DecomposeRangeCheckCircuit.value
    pc,                     \* position of the driver
    table,                  \* entries of the lookup table column
    value_col,              \* advice column `value`: row -> cell
    value_decomposed,       \* advice column `value_decomposed`: row -> cell
    q_decomposed,           \* rows where selector q_decomposed is enabled
    q_range_check,          \* rows where selector q_range_check is enabled
    i,                      \* loop index of assign_decomposed_values
    decompose_in_progress,  \* local of assign_decomposed_values
    value_res,              \* Result returned by assign_value
    decomposed_res,         \* Result returned by assign_decomposed_values
    synth_res,              \* Result returned by synthesize
    failures,               \* failures reported by verify
    faults,                 \* substrate calls that may still return Err
    tamper,                 \* cells a deviating prover may still overwrite
    columns,                \* the floor planner's first free row of each column
    regions,                \* the regions laid out so far: name, start, rows
    writes                  \* per advice cell, the assign_advice calls that wrote it

\* range_check/range_check.rs: RangeCheckCircuit<F, RANGE>
VARIABLES
    rc_RANGE,               \* the const generic RANGE
    rc_value,               \* RangeCheckCircuit.value
    rc_pc,                  \* position of the run
    rc_value_col,           \* advice column `value`: row -> cell
    rc_q_range_check,       \* rows where selector q_range_check is enabled
    rc_failures             \* failures reported by verify

rcVars == <<rc_RANGE, rc_value, rc_pc, rc_value_col, rc_q_range_check, rc_failures>>

\* fibonacci_lecture_2.rs and example1.rs: the three-column FibonacciCircuit
VARIABLES
    fib_a, fib_b,           \* FibonacciCircuit.a, .b
    fib_pc,                 \* position of the run
    fib_advice,             \* advice columns a, b, c: column -> row -> cell
    fib_selector,           \* rows where the selector is enabled
    fib_copies,             \* equality constraints added by copy_advice
    fib_prev_b, fib_prev_c, \* locals prev_b, prev_c of synthesize: cells
    fib_i,                  \* loop index _i of synthesize
    fib_row,                \* the floor planner's first free row
    fib_failures            \* failures reported by verify

fibVars == <<fib_a, fib_b, fib_pc, fib_advice, fib_selector, fib_copies,
             fib_prev_b, fib_prev_c, fib_i, fib_row, fib_failures>>

\* fib_lec2_part2.rs: the single-column FibonacciCircuit
VARIABLES
    f1_instance,            \* the instance column: the public inputs
    f1_pc,                  \* position of the run
    f1_advice,              \* the advice column: row -> cell
    f1_selector,            \* rows where the selector is enabled
    f1_copies,              \* equality constraints: (instance row, advice row)
    f1_prev_a, f1_prev_b,   \* locals prev_a, prev_b of assign: rows of cells
    f1_i,                   \* loop index i of assign
    f1_failures             \* failures reported by verify

f1Vars == <<f1_instance, f1_pc, f1_advice, f1_selector, f1_copies,
            f1_prev_a, f1_prev_b, f1_i, f1_failures>>

\* The circuits of the other source files, untouched by this one's operations.
otherCircuits == <<rcVars, fibVars, f1Vars>>

vars == <<consts, value, pc, table, value_col, value_decomposed, q_decomposed,
          q_range_check, i, decompose_in_progress, value_res, decomposed_res,
          synth_res, failures, faults, tamper, columns, regions, writes,
          otherCircuits>>

\* --------------------------------------------------------------- helpers

Rows == 0 .. (NumRows - 1)

\* A cell no assign_advice has written; the prover reads it as zero.
Unassigned == -1

CellVal(c) == IF c = Unassigned THEN 0 ELSE c

Pow(b, e) == b ^ e

\* 1 << s
Shl1(s) == Pow(2, s)

\* x >> s
Shr(x, s) == x \div Pow(2, s)

\* let decomposed_parts = RANGE / LOOKUP_RANGE;
DecomposedParts(c) == c.RANGE \div c.LOOKUP_RANGE

\* The offset stuck at the first row of the region.
OffsetZero(k) == 0

\* offset = i;
Offset(k) == k

\* The width of a sixteen-bit unsigned integer.
NarrowBits == 2 ^ 4

\* The width of decompose_in_progress and of the literal it is reduced by: u128.
U128Bits == 128

\* offset * NUM_BITS: the amount of both shifts of an iteration.
ShiftAmount(c, offset) == offset * c.NUM_BITS

\* A shift by the width or more panics where overflow checks are on and uses
\* the amount modulo the width where they are off.
ShiftOutcomes(s) == IF s >= U128Bits THEN {"panic", "masked"} ELSE {"ok"}

\* The columns and selectors of the circuit, as the floor planner sees them.
ColumnNames == {"value", "value_decomposed", "q_decomposed", "q_range_check"}

\* Region "Assign value": the columns its closure touches, and its rows.
ValueRegionColumns == {"q_decomposed", "value"}

\* The digits' region also touching the value column.
DecomposedRegionColumnsShared == {"q_range_check", "value_decomposed", "value"}

\* Region "Assign decomposed values": the columns its closure touches.
DecomposedRegionColumns == {"q_range_check", "value_decomposed"}

SetMax(S) == CHOOSE x \in S : \A y \in S : y <= x

\* SimpleFloorPlanner: a region starts at the first row free in all its columns.
RegionStart(cols, shape) == SetMax({cols[c] : c \in shape})

\* SimpleFloorPlanner: the region's columns are taken up to its last row.
PlaceRegion(cols, shape, start, rows) ==
    [c \in DOMAIN cols |-> IF c \in shape THEN start + rows ELSE cols[c]]

\* The advice cells, as (column, row).
Cells == {"value", "value_decomposed"} \X Rows

\* The outcomes a substrate call (enable, assign_advice, load) can have.
Outcomes(f) == IF f > 0 THEN {TRUE, FALSE} ELSE {TRUE}

Spend(f, ok) == IF ok THEN f ELSE f - 1

\* ------------------------------------------------------------- configure

\* Mutant: the width assertion lets NUM_BITS * decomposed_parts reach 64.
ConfigureAssertsInclusive(c) ==
    /\ DecomposedParts(c) > 0
    /\ c.NUM_BITS * DecomposedParts(c) <= 64

\* assert!(decomposed_parts > 0) and assert!(NUM_BITS * decomposed_parts < 64)
ConfigureAsserts(c) ==
    /\ DecomposedParts(c) > 0
    /\ c.NUM_BITS * DecomposedParts(c) < 64

\* Mutant: the gate weighs cell i by the next window's weight.
GateWeightShifted(c, k) == Shl1(c.NUM_BITS * (k + 1))

\* Expression::Constant(F::from(1_u64 << (NUM_BITS * i)))
GateWeight(c, k) == Shl1(c.NUM_BITS * k)

\* query_advice(value_decomposed, Rotation(i)): rows wrap around the grid.
GateCell(col, r, k) == CellVal(col[(r + k) % NumRows])

RECURSIVE GateFold(_, _, _, _)
GateFold(c, col, r, n) ==
    IF n = 0 THEN 0
    ELSE GateFold(c, col, r, n - 1) + GateCell(col, r, n - 1) * GateWeight(c, n - 1)

\* decomposed_check: the fold over the queried cells, minus value.
DecomposedCheck(c, vcol, dcol, r) ==
    GateFold(c, dcol, r, DecomposedParts(c)) - CellVal(vcol[r])

\* Constraints::with_selector(q, ...): the polynomial q * decomposed_check.
GateFails(c, qd, vcol, dcol, r) ==
    (IF r \in qd THEN 1 ELSE 0) * DecomposedCheck(c, vcol, dcol, r) # 0

\* Mutant: the lookup input is the digit cell alone, without the selector.
LookupInputUngated(qr, dcol, r) == CellVal(dcol[r])

\* meta.lookup: the input expression q * decomposed_value.
LookupInput(qr, dcol, r) == (IF r \in qr THEN 1 ELSE 0) * CellVal(dcol[r])

LookupFails(qr, dcol, tbl, r) == LookupInput(qr, dcol, r) \notin tbl

\* The table column loaded one entry off: 1 .. LOOKUP_RANGE.
LoadedTableFromOne(c) == 1 .. c.LOOKUP_RANGE

\* The table column after RangeTableConfig::load.
LoadedTable(c) == 0 .. (c.LOOKUP_RANGE - 1)

\* ---------------------------------------------------------------- states

\* RangeCheckCircuit not run.
RcIdle ==
    /\ rc_RANGE = 0 /\ rc_value = 0 /\ rc_pc = "idle"
    /\ rc_value_col = [r \in Rows |-> Unassigned]
    /\ rc_q_range_check = {} /\ rc_failures = {}

\* The three-column FibonacciCircuit not run.
FibIdle ==
    /\ fib_a = 0 /\ fib_b = 0 /\ fib_pc = "idle"
    /\ fib_advice = [c \in {"a", "b", "c"} |-> [r \in Rows |-> Unassigned]]
    /\ fib_selector = {} /\ fib_copies = {}
    /\ fib_prev_b = <<>> /\ fib_prev_c = <<>>
    /\ fib_i = 0 /\ fib_row = 0 /\ fib_failures = {}

\* The single-column FibonacciCircuit not run.
F1Idle ==
    /\ f1_instance = <<>> /\ f1_pc = "idle"
    /\ f1_advice = [r \in Rows |-> Unassigned]
    /\ f1_selector = {} /\ f1_copies = {}
    /\ f1_prev_a = 0 /\ f1_prev_b = 0 /\ f1_i = 0 /\ f1_failures = {}

\* The grid and the locals before configure.
InitGrid ==
    /\ table = {}
    /\ value_col = [r \in Rows |-> Unassigned]
    /\ value_decomposed = [r \in Rows |-> Unassigned]
    /\ q_decomposed = {}
    /\ q_range_check = {}
    /\ i = 0
    /\ decompose_in_progress = 0
    /\ value_res = "none"
    /\ decomposed_res = "none"
    /\ synth_res = "none"
    /\ failures = {}
    /\ columns = [c \in ColumnNames |-> 0]
    /\ regions = <<>>
    /\ writes = [c \in Cells |-> 0]

InitCommon ==
    /\ pc = "configure"
    /\ InitGrid
    /\ RcIdle /\ FibIdle /\ F1Idle

\* DecomposeRangeCheckCircuit not run.
MainIdle ==
    /\ consts = SourceConsts /\ value = 0 /\ faults = 0 /\ tamper = 0
    /\ pc = "idle"
    /\ InitGrid

\* The build under src/ on a prover with rows to spare (k = 16 in the tests).
Init ==
    /\ consts = SourceConsts
    /\ value \in 0 .. MaxValue
    /\ faults = 0
    /\ tamper = 0
    /\ InitCommon

\* ---------------------------------------------------------------- actions

\* Circuit::configure: the asserts of decomposed_check run while the gate is built.
Configure ==
    /\ pc = "configure"
    /\ pc' = IF ConfigureAsserts(consts) THEN "load" ELSE "panic"
    /\ UNCHANGED <<consts, value, table, value_col, value_decomposed, q_decomposed,
                   q_range_check, i, decompose_in_progress, value_res,
                   decomposed_res, synth_res, failures, faults, tamper,
                   columns, regions, writes,
                   otherCircuits>>

\* synthesize with the load's error dropped: config.table.load(&mut layouter);
LoadTableIgnoringErr ==
    /\ pc = "load"
    /\ \E ok \in Outcomes(faults) :
        /\ faults' = Spend(faults, ok)
        /\ table' = IF ok THEN LoadedTable(consts) ELSE table
        /\ synth_res' = synth_res
        /\ pc' = "assign_value"
    /\ UNCHANGED <<consts, value, value_col, value_decomposed, q_decomposed,
                   q_range_check, i, decompose_in_progress, value_res,
                   decomposed_res, failures, tamper, columns, regions, writes,
                   otherCircuits>>

\* synthesize: config.table.load(&mut layouter)?
LoadTable ==
    /\ pc = "load"
    /\ \E ok \in Outcomes(faults) :
        /\ faults' = Spend(faults, ok)
        /\ table' = IF ok THEN LoadedTable(consts) ELSE table
        /\ synth_res' = IF ok THEN synth_res ELSE "err"
        /\ pc' = IF ok THEN "assign_value" ELSE "done"
    /\ UNCHANGED <<consts, value, value_col, value_decomposed, q_decomposed,
                   q_range_check, i, decompose_in_progress, value_res,
                   decomposed_res, failures, tamper, columns, regions, writes,
                   otherCircuits>>

\* assign_value: the region is laid out, then its closure enables q_decomposed
\* at offset 0 (with ?) and assigns the value. synthesize keeps the Result in a
\* local and goes on.
AssignValue ==
    /\ pc = "assign_value"
    /\ LET start == RegionStart(columns, ValueRegionColumns)
           row == start + 0
       IN
        /\ columns' = PlaceRegion(columns, ValueRegionColumns, start, 1)
        /\ regions' = Append(regions, [name |-> "Assign value", start |-> start, rows |-> 1])
        /\ \E okEnable \in Outcomes(faults) :
           \E okAssign \in Outcomes(Spend(faults, okEnable)) :
            \* a failed enable returns at once: assign_advice is not called
            /\ okEnable \/ okAssign
            /\ faults' = Spend(Spend(faults, okEnable), okAssign)
            /\ q_decomposed' = IF okEnable THEN q_decomposed \cup {row} ELSE q_decomposed
            /\ value_col' = IF okEnable /\ okAssign
                            THEN [value_col EXCEPT ![row] = value]
                            ELSE value_col
            /\ writes' = IF okEnable /\ okAssign
                         THEN [writes EXCEPT ![<<"value", row>>] = @ + 1]
                         ELSE writes
            /\ value_res' = IF okEnable /\ okAssign THEN "ok" ELSE "err"
    /\ pc' = "assign_decomposed"
    /\ i' = 0
    /\ decompose_in_progress' = value
    /\ UNCHANGED <<consts, value, table, value_decomposed, q_range_check,
                   decomposed_res, synth_res, failures, tamper,
                   otherCircuits>>

\* The digit reduced by the fixed width 1 << NUM_BITS.
DecomposedValFixedWidth(c, dip, offset) == dip % Shl1(c.NUM_BITS)

\* let decomposed_val = decompose_in_progress % { 1 << (offset * NUM_BITS) };
DecomposedVal(c, dip, offset) == dip % Shl1(ShiftAmount(c, offset) % U128Bits)

\* decompose_in_progress = decompose_in_progress >> (offset * NUM_BITS);
NextInProgress(c, dip, offset) == Shr(dip, ShiftAmount(c, offset) % U128Bits)

\* One iteration of the loop of assign_decomposed_values (the region is laid out
\* before the first): enable q_range_check (with ?), compute the digit (the
\* shift may overflow), assign it (its Result is kept in final_assignment and
\* never read), shift. After the last iteration the closure returns Ok(true).
AssignDecomposedStep ==
    /\ pc = "assign_decomposed"
    /\ i < DecomposedParts(consts)
    /\ LET parts == DecomposedParts(consts)
           start == IF i = 0 THEN RegionStart(columns, DecomposedRegionColumns)
                    ELSE regions[Len(regions)].start
           row == start + Offset(i)
       IN
        /\ columns' = IF i = 0
                      THEN PlaceRegion(columns, DecomposedRegionColumns, start, parts)
                      ELSE columns
        /\ regions' = IF i = 0
                      THEN Append(regions, [name |-> "Assign decomposed values",
                                            start |-> start, rows |-> parts])
                      ELSE regions
        /\ \E okEnable \in Outcomes(faults) :
           \E okAssign \in Outcomes(Spend(faults, okEnable)) :
           \E shift \in ShiftOutcomes(ShiftAmount(consts, Offset(i))) :
            \* a failed enable returns at once: assign_advice is not called
            /\ okEnable \/ okAssign
            /\ faults' = Spend(Spend(faults, okEnable), okAssign)
            /\ q_range_check' = IF okEnable THEN q_range_check \cup {row} ELSE q_range_check
            /\ value_decomposed' =
                  IF okEnable /\ okAssign /\ shift # "panic"
                  THEN [value_decomposed EXCEPT
                          ![row] = DecomposedVal(consts, decompose_in_progress, Offset(i))]
                  ELSE value_decomposed
            /\ writes' = IF okEnable /\ okAssign /\ shift # "panic"
                         THEN [writes EXCEPT ![<<"value_decomposed", row>>] = @ + 1]
                         ELSE writes
            /\ decompose_in_progress' =
                  IF okEnable /\ shift # "panic"
                  THEN NextInProgress(consts, decompose_in_progress, Offset(i))
                  ELSE decompose_in_progress
            /\ i' = IF okEnable /\ shift # "panic" THEN i + 1 ELSE i
            /\ decomposed_res' =
                  IF ~okEnable THEN "err"
                  ELSE IF shift # "panic" /\ i + 1 = parts THEN "ok"
                  ELSE decomposed_res
            /\ pc' = IF ~okEnable THEN "synth_return"
                     ELSE IF shift = "panic" THEN "panic"
                     ELSE IF i + 1 = parts THEN "synth_return"
                     ELSE pc
    /\ UNCHANGED <<consts, value, table, value_col, q_decomposed, value_res,
                   synth_res, failures, tamper,
                   otherCircuits>>

\* synthesize: Ok(()) whatever value and decomposed hold.
SynthesizeReturn ==
    /\ pc = "synth_return"
    /\ synth_res' = "ok"
    /\ pc' = "verify"
    /\ UNCHANGED <<consts, value, table, value_col, value_decomposed, q_decomposed,
                   q_range_check, i, decompose_in_progress, value_res,
                   decomposed_res, failures, faults, tamper, columns, regions, writes,
                   otherCircuits>>

\* The failures verify finds: the gate on every row, the lookup on every row.
\* An unassigned cell is read as zero. The verdict is the one of the declared
\* identities and lookups; the prover's own bookkeeping of which region
\* assigned a queried cell is not part of it.
VerifyFailures(c, qd, qr, vcol, dcol, tbl) ==
    {<<"gate", r>> : r \in {x \in Rows : GateFails(c, qd, vcol, dcol, x)}}
    \cup {<<"lookup", r>> : r \in {x \in Rows : LookupFails(qr, dcol, tbl, x)}}

\* prover.verify() on the grid synthesize left.
Verify ==
    /\ pc = "verify"
    /\ failures' = VerifyFailures(consts, q_decomposed, q_range_check,
                                  value_col, value_decomposed, table)
    /\ pc' = "done"
    /\ UNCHANGED <<consts, value, table, value_col, value_decomposed, q_decomposed,
                   q_range_check, i, decompose_in_progress, value_res,
                   decomposed_res, synth_res, faults, tamper, columns, regions, writes,
                   otherCircuits>>

Next ==
    \/ Configure
    \/ LoadTable
    \/ AssignValue
    \/ AssignDecomposedStep
    \/ SynthesizeReturn
    \/ Verify

Spec == Init /\ [][Next]_vars

\* ------------------------------------------------ further specifications

\* The build under src/ on a substrate whose calls may return Err.
InitFaults ==
    /\ consts = SourceConsts
    /\ value \in 0 .. MaxFaultValue
    /\ faults = MaxFaults
    /\ tamper = 0
    /\ InitCommon

SpecFaults == InitFaults /\ [][Next]_vars

\* The build of the concrete scenario.
InitScenario ==
    /\ consts = ScenarioConsts
    /\ value \in 0 .. MaxValue
    /\ faults = 0
    /\ tamper = 0
    /\ InitCommon

SpecScenario == InitScenario /\ [][Next]_vars

\* Builds with other constants: digit width nb, LOOKUP_RANGE = 2^nb, w windows.
ConfigSpace ==
    {[RANGE |-> w * Pow(2, nb), NUM_BITS |-> nb, LOOKUP_RANGE |-> Pow(2, nb)] :
        nb \in 1 .. MaxNumBits, w \in 0 .. MaxParts}

InitConfig ==
    /\ consts \in ConfigSpace
    /\ value = 0
    /\ faults = 0
    /\ tamper = 0
    /\ InitCommon

\* A run up to its first assignment: configure, then the table load and
\* assign_value of synthesize (the gate is not evaluated, so no weight is formed).
NextConfig == Configure \/ LoadTable \/ AssignValue

SpecConfig == InitConfig /\ [][NextConfig]_vars

\* A prover that deviates from the assigner: before verify it overwrites a cell
\* of either advice column with a value of its choice.
TamperValues(c) == 0 .. (c.LOOKUP_RANGE + TamperExcess)

Tamper ==
    /\ pc = "verify"
    /\ tamper > 0
    /\ tamper' = tamper - 1
    /\ \E onValue \in BOOLEAN, r \in Rows, x \in TamperValues(consts) :
        /\ value_col' = IF onValue THEN [value_col EXCEPT ![r] = x] ELSE value_col
        /\ value_decomposed' = IF onValue THEN value_decomposed
                               ELSE [value_decomposed EXCEPT ![r] = x]
    /\ UNCHANGED <<consts, value, pc, table, q_decomposed, q_range_check, i,
                   decompose_in_progress, value_res, decomposed_res, synth_res,
                   failures, faults, columns, regions, writes,
                   otherCircuits>>

InitWitness ==
    /\ consts = SourceConsts
    /\ value \in (consts.RANGE - WitnessSpan) .. (consts.RANGE + WitnessSpan)
    /\ faults = 0
    /\ tamper = MaxTamper
    /\ InitCommon

NextWitness == Next \/ Tamper

SpecWitness == InitWitness /\ [][NextWitness]_vars

\* ------------------------------------- range_check/range_check.rs (brute force)

\* The modulus of the field F of the other circuits' cells: a prime standing
\* for the Pasta modulus, small enough for products to be computed exactly.
FieldModulus == 2 ^ 13 - 1

FieldElem(n) == n % FieldModulus
FAdd(x, y) == (x + y) % FieldModulus
FSub(x, y) == (x - y + FieldModulus) % FieldModulus
FMul(x, y) == (x * y) % FieldModulus

\* (0..range).fold(value.clone(), |acc, i| acc * (value.clone() - Constant(F::from(i))))
\* after its first n steps.
RECURSIVE RangeCheckFold(_, _)
RangeCheckFold(v, n) ==
    IF n = 0 THEN v
    ELSE FMul(RangeCheckFold(v, n - 1), FSub(v, FieldElem(n - 1)))

\* The fold run one step further: 0..=range.
RangeCheckExprInclusive(range, v) == RangeCheckFold(v, range + 1)

\* let range_check = |range, value| (0..range).fold(..)
RangeCheckExpr(range, v) == RangeCheckFold(v, range)

\* Constraints::with_selector(q_range_check, [range_check(RANGE, value)]) on row r.
RangeGateFails(range, q, col, r) ==
    FMul(IF r \in q THEN 1 ELSE 0, RangeCheckExpr(range, CellVal(col[r]))) # 0

\* Circuit::configure -> RangeCheckConfig::configure
RcConfigure ==
    /\ rc_pc = "configure"
    /\ rc_pc' = "assign"
    /\ UNCHANGED <<rc_RANGE, rc_value, rc_value_col, rc_q_range_check, rc_failures>>
    /\ UNCHANGED <<consts, value, pc, table, value_col, value_decomposed, q_decomposed,
                   q_range_check, i, decompose_in_progress, value_res, decomposed_res,
                   synth_res, failures, faults, tamper, columns, regions, writes,
                   fibVars, f1Vars>>

\* synthesize -> RangeCheckChip::assign: in the region's row 0 enable
\* q_range_check and assign the value.
RcAssign ==
    /\ rc_pc = "assign"
    /\ LET offset == 0
       IN  /\ rc_q_range_check' = rc_q_range_check \cup {offset}
           /\ rc_value_col' = [rc_value_col EXCEPT ![offset] = rc_value]
    /\ rc_pc' = "verify"
    /\ UNCHANGED <<rc_RANGE, rc_value, rc_failures>>
    /\ UNCHANGED <<consts, value, pc, table, value_col, value_decomposed, q_decomposed,
                   q_range_check, i, decompose_in_progress, value_res, decomposed_res,
                   synth_res, failures, faults, tamper, columns, regions, writes,
                   fibVars, f1Vars>>

\* prover.verify(): the gate on every row.
RcVerify ==
    /\ rc_pc = "verify"
    /\ rc_failures' = {r \in Rows :
                          RangeGateFails(rc_RANGE, rc_q_range_check, rc_value_col, r)}
    /\ rc_pc' = "done"
    /\ UNCHANGED <<rc_RANGE, rc_value, rc_value_col, rc_q_range_check>>
    /\ UNCHANGED <<consts, value, pc, table, value_col, value_decomposed, q_decomposed,
                   q_range_check, i, decompose_in_progress, value_res, decomposed_res,
                   synth_res, failures, faults, tamper, columns, regions, writes,
                   fibVars, f1Vars>>

\* The values checked: small field elements and the negatives of small ones.
BruteValues == (0 .. MaxBruteValue) \cup {FieldModulus - k : k \in 1 .. MaxBruteValue}

\* RangeCheckCircuit::<Fp, RANGE> { value } before MockProver::run.
InitRangeCheck ==
    /\ rc_RANGE \in 1 .. MaxBruteRange
    /\ rc_value \in BruteValues
    /\ rc_pc = "configure"
    /\ rc_value_col = [r \in Rows |-> Unassigned]
    /\ rc_q_range_check = {} /\ rc_failures = {}
    /\ MainIdle /\ FibIdle /\ F1Idle

NextRangeCheck == RcConfigure \/ RcAssign \/ RcVerify

SpecRangeCheck == InitRangeCheck /\ [][NextRangeCheck]_vars

\* ------------------------- fibonacci_lecture_2.rs, example1.rs (three columns)

\* The value of an assigned cell (column, row).
FibValue(cell) == CellVal(fib_advice[cell[1]][cell[2]])

\* vec![s * (a + b - c)], all at Rotation::cur(), on row r.
FibGateFails(sel, adv, r) ==
    FMul(IF r \in sel THEN 1 ELSE 0,
         FSub(FAdd(CellVal(adv["a"][r]), CellVal(adv["b"][r])), CellVal(adv["c"][r]))) # 0

\* An equality constraint fails when its two cells differ.
FibCopyFails(adv, cp) == adv[cp[1][1]][cp[1][2]] # adv[cp[2][1]][cp[2][2]]

\* Circuit::configure -> FibonacciChip::configure
FibConfigure ==
    /\ fib_pc = "configure"
    /\ fib_pc' = "first_row"
    /\ UNCHANGED <<fib_a, fib_b, fib_advice, fib_selector, fib_copies, fib_prev_b,
                   fib_prev_c, fib_i, fib_row, fib_failures>>
    /\ UNCHANGED <<consts, value, pc, table, value_col, value_decomposed, q_decomposed,
                   q_range_check, i, decompose_in_progress, value_res, decomposed_res,
                   synth_res, failures, faults, tamper, columns, regions, writes,
                   rcVars, f1Vars>>

\* assign_first_row: a region of one row with the selector enabled and a, b and
\* c = a + b assigned; synthesize keeps the cells of b and c.
AssignFirstRow ==
    /\ fib_pc = "first_row"
    /\ LET row == fib_row + 0
           c_val == FAdd(fib_a, fib_b)
       IN  /\ fib_selector' = fib_selector \cup {row}
           /\ fib_advice' = [fib_advice EXCEPT !["a"][row] = fib_a,
                                               !["b"][row] = fib_b,
                                               !["c"][row] = c_val]
           /\ fib_prev_b' = <<"b", row>>
           /\ fib_prev_c' = <<"c", row>>
    /\ fib_row' = fib_row + 1
    /\ fib_i' = LoopFrom
    /\ fib_pc' = "rows"
    /\ UNCHANGED <<fib_a, fib_b, fib_copies, fib_failures>>
    /\ UNCHANGED <<consts, value, pc, table, value_col, value_decomposed, q_decomposed,
                   q_range_check, i, decompose_in_progress, value_res, decomposed_res,
                   synth_res, failures, faults, tamper, columns, regions, writes,
                   rcVars, f1Vars>>

\* assign_row, one iteration of the loop of synthesize: a region of one row
\* with the selector enabled, prev_b copied to a, prev_c copied to b, and c
\* assigned the value c_val; then prev_b = prev_c, prev_c = c_cell.
AssignRowWriting(c_val) ==
    /\ fib_pc = "rows"
    /\ fib_i < LoopTo
    /\ LET row == fib_row + 0
       IN  /\ fib_selector' = fib_selector \cup {row}
           /\ fib_advice' = [fib_advice EXCEPT !["a"][row] = FibValue(fib_prev_b),
                                               !["b"][row] = FibValue(fib_prev_c),
                                               !["c"][row] = c_val]
           /\ fib_copies' = fib_copies \cup {<<fib_prev_b, <<"a", row>>>>,
                                             <<fib_prev_c, <<"b", row>>>>}
           /\ fib_prev_b' = fib_prev_c
           /\ fib_prev_c' = <<"c", row>>
    /\ fib_row' = fib_row + 1
    /\ fib_i' = fib_i + 1
    /\ fib_pc' = IF fib_i + 1 = LoopTo THEN "verify" ELSE "rows"
    /\ UNCHANGED <<fib_a, fib_b, fib_failures>>
    /\ UNCHANGED <<consts, value, pc, table, value_col, value_decomposed, q_decomposed,
                   q_range_check, i, decompose_in_progress, value_res, decomposed_res,
                   synth_res, failures, faults, tamper, columns, regions, writes,
                   rcVars, f1Vars>>

\* The value of c taken from b alone.
CValFromB(b, c) == FAdd(b, b)

\* fibonacci_lecture_2.rs: |b| prev_c.0.value().map(|c| *b + *c)
CVal(b, c) == FAdd(b, c)

\* example1.rs: |b| prev_c.0.value().map(|c| *b + *c + *b)
Example1CVal(b, c) == FAdd(FAdd(b, c), b)

\* fibonacci_lecture_2.rs: assign_row
AssignRow == AssignRowWriting(CVal(FibValue(fib_prev_b), FibValue(fib_prev_c)))

\* example1.rs: assign_row
Example1AssignRow ==
    AssignRowWriting(Example1CVal(FibValue(fib_prev_b), FibValue(fib_prev_c)))

\* prover.assert_satisfied(): the gate on every row and every equality constraint.
FibVerify ==
    /\ fib_pc = "verify"
    /\ fib_failures' =
          {<<"gate", r>> : r \in {x \in Rows : FibGateFails(fib_selector, fib_advice, x)}}
          \cup {<<"copy", cp>> : cp \in {x \in fib_copies : FibCopyFails(fib_advice, x)}}
    /\ fib_pc' = "done"
    /\ UNCHANGED <<fib_a, fib_b, fib_advice, fib_selector, fib_copies, fib_prev_b,
                   fib_prev_c, fib_i, fib_row>>
    /\ UNCHANGED <<consts, value, pc, table, value_col, value_decomposed, q_decomposed,
                   q_range_check, i, decompose_in_progress, value_res, decomposed_res,
                   synth_res, failures, faults, tamper, columns, regions, writes,
                   rcVars, f1Vars>>

\* FibonacciCircuit { a: Some(a), b: Some(b) } before MockProver::run.
InitFibonacci ==
    /\ fib_a \in 0 .. MaxSeed /\ fib_b \in 0 .. MaxSeed
    /\ fib_pc = "configure"
    /\ fib_advice = [c \in {"a", "b", "c"} |-> [r \in Rows |-> Unassigned]]
    /\ fib_selector = {} /\ fib_copies = {}
    /\ fib_prev_b = <<>> /\ fib_prev_c = <<>>
    /\ fib_i = 0 /\ fib_row = 0 /\ fib_failures = {}
    /\ MainIdle /\ RcIdle /\ F1Idle

NextFibonacci == FibConfigure \/ AssignFirstRow \/ AssignRow \/ FibVerify

\* fibonacci_lecture_2.rs
SpecFibonacci == InitFibonacci /\ [][NextFibonacci]_vars

NextExample1 == FibConfigure \/ AssignFirstRow \/ Example1AssignRow \/ FibVerify

\* example1.rs
SpecExample1 == InitFibonacci /\ [][NextExample1]_vars

\* ------------------------------------------ fib_lec2_part2.rs (single column)

\* The instance column: its row r, 0 outside the public inputs given.
InstanceVal(inst, r) == IF r + 1 \in DOMAIN inst THEN inst[r + 1] ELSE 0

\* vec![s * (a + b - c)] with a, b, c at Rotation::cur(), next() and (2), on row r.
F1GateFails(sel, adv, r) ==
    FMul(IF r \in sel THEN 1 ELSE 0,
         FSub(FAdd(CellVal(adv[r]), CellVal(adv[(r + 1) % NumRows])),
              CellVal(adv[(r + 2) % NumRows]))) # 0

\* An equality constraint (instance row, advice row) fails when the two differ.
F1CopyFails(inst, adv, cp) == InstanceVal(inst, cp[1]) # adv[cp[2]]

\* The selector enabled one row further: i < nrows - 1.
SelectorGuardLate(k, n) == k < n - 1

\* if i < nrows - 2
SelectorGuard(k, n) == k < n - 2

\* Circuit::configure -> FibonacciChip::configure
F1Configure ==
    /\ f1_pc = "configure"
    /\ f1_pc' = "assign"
    /\ UNCHANGED <<f1_instance, f1_advice, f1_selector, f1_copies, f1_prev_a,
                   f1_prev_b, f1_i, f1_failures>>
    /\ UNCHANGED <<consts, value, pc, table, value_col, value_decomposed, q_decomposed,
                   q_range_check, i, decompose_in_progress, value_res, decomposed_res,
                   synth_res, failures, faults, tamper, columns, regions, writes,
                   rcVars, fibVars>>

\* assign, up to the loop: the selector is enabled on rows 0 and 1, and the
\* instance rows 0 and 1 are copied into the advice rows 0 and 1.
F1AssignStart ==
    /\ f1_pc = "assign"
    /\ f1_selector' = f1_selector \cup {0, 1}
    /\ f1_advice' = [f1_advice EXCEPT ![0] = InstanceVal(f1_instance, 0),
                                      ![1] = InstanceVal(f1_instance, 1)]
    /\ f1_copies' = f1_copies \cup {<<0, 0>>, <<1, 1>>}
    /\ f1_prev_a' = 0
    /\ f1_prev_b' = 1
    /\ f1_i' = 2
    /\ f1_pc' = "loop"
    /\ UNCHANGED <<f1_instance, f1_failures>>
    /\ UNCHANGED <<consts, value, pc, table, value_col, value_decomposed, q_decomposed,
                   q_range_check, i, decompose_in_progress, value_res, decomposed_res,
                   synth_res, failures, faults, tamper, columns, regions, writes,
                   rcVars, fibVars>>

\* assign, one iteration of for i in 2..nrows: enable the selector if
\* i < nrows - 2, assign prev_a + prev_b at row i, shift prev_a, prev_b. After
\* the last iteration the closure returns prev_b.
F1AssignStep ==
    /\ f1_pc = "loop"
    /\ f1_i < nrows
    /\ LET c_val == FAdd(CellVal(f1_advice[f1_prev_a]), CellVal(f1_advice[f1_prev_b]))
       IN  f1_advice' = [f1_advice EXCEPT ![f1_i] = c_val]
    /\ f1_selector' = IF SelectorGuard(f1_i, nrows)
                      THEN f1_selector \cup {f1_i}
                      ELSE f1_selector
    /\ f1_prev_a' = f1_prev_b
    /\ f1_prev_b' = f1_i
    /\ f1_i' = f1_i + 1
    /\ f1_pc' = IF f1_i + 1 = nrows THEN "expose" ELSE "loop"
    /\ UNCHANGED <<f1_instance, f1_copies, f1_failures>>
    /\ UNCHANGED <<consts, value, pc, table, value_col, value_decomposed, q_decomposed,
                   q_range_check, i, decompose_in_progress, value_res, decomposed_res,
                   synth_res, failures, faults, tamper, columns, regions, writes,
                   rcVars, fibVars>>

\* expose_public(.., &output, 2): constrain the cell assign returned to equal
\* the instance row 2.
F1ExposePublic ==
    /\ f1_pc = "expose"
    /\ f1_copies' = f1_copies \cup {<<OutRow, f1_prev_b>>}
    /\ f1_pc' = "verify"
    /\ UNCHANGED <<f1_instance, f1_advice, f1_selector, f1_prev_a, f1_prev_b,
                   f1_i, f1_failures>>
    /\ UNCHANGED <<consts, value, pc, table, value_col, value_decomposed, q_decomposed,
                   q_range_check, i, decompose_in_progress, value_res, decomposed_res,
                   synth_res, failures, faults, tamper, columns, regions, writes,
                   rcVars, fibVars>>

\* prover.verify(): the gate on every row and every equality constraint.
F1Verify ==
    /\ f1_pc = "verify"
    /\ f1_failures' =
          {<<"gate", r>> : r \in {x \in Rows : F1GateFails(f1_selector, f1_advice, x)}}
          \cup {<<"copy", cp>> :
                  cp \in {x \in f1_copies : F1CopyFails(f1_instance, f1_advice, x)}}
    /\ f1_pc' = "done"
    /\ UNCHANGED <<f1_instance, f1_advice, f1_selector, f1_copies, f1_prev_a,
                   f1_prev_b, f1_i>>
    /\ UNCHANGED <<consts, value, pc, table, value_col, value_decomposed, q_decomposed,
                   q_range_check, i, decompose_in_progress, value_res, decomposed_res,
                   synth_res, failures, faults, tamper, columns, regions, writes,
                   rcVars, fibVars>>

\* MockProver::run(k, &circuit, vec![public_inputs]) with three public inputs.
InitSingleColumn ==
    /\ f1_instance \in {<<a, b, out>> : a \in 0 .. MaxSeed, b \in 0 .. MaxSeed,
                                        out \in 0 .. MaxOut}
    /\ f1_pc = "configure"
    /\ f1_advice = [r \in Rows |-> Unassigned]
    /\ f1_selector = {} /\ f1_copies = {}
    /\ f1_prev_a = 0 /\ f1_prev_b = 0 /\ f1_i = 0 /\ f1_failures = {}
    /\ MainIdle /\ RcIdle /\ FibIdle

NextSingleColumn ==
    F1Configure \/ F1AssignStart \/ F1AssignStep \/ F1ExposePublic \/ F1Verify

SpecSingleColumn == InitSingleColumn /\ [][NextSingleColumn]_vars

\* ---------------------------------------------------------------- claims

\* The number of windows W: the digit cells the gate queries.
W == DecomposedParts(consts)

\* check(value) has run to its verdict.
Checked == pc = "done" /\ synth_res = "ok"

Accepted == Checked /\ failures = {}

\* digit i of v in base LOOKUP_RANGE, as the specification defines it.
PositionalDigit(v, k) == (v \div Pow(consts.LOOKUP_RANGE, k)) % consts.LOOKUP_RANGE

RECURSIVE WeightedSum(_, _, _)
WeightedSum(col, r, n) ==
    IF n = 0 THEN 0
    ELSE WeightedSum(col, r, n - 1)
         + CellVal(col[(r + n - 1) % NumRows]) * Pow(consts.LOOKUP_RANGE, n - 1)

\* sum over i in 0..W-1 of digit[r+i] * LOOKUP_RANGE^i
Recomposed(r) == WeightedSum(value_decomposed, r, W)

\* C1: every value v with 0 <= v < RANGE is accepted by check(v).
C1_InRangeAccepted == (Checked /\ value < consts.RANGE) => failures = {}

\* C2: every value v >= RANGE is rejected by check(v).
C2_OutOfRangeRejected == (Checked /\ value >= consts.RANGE) => failures # {}

\* C3: whatever the witness, if the gate at the anchor and the lookups on the W
\* digit rows are satisfied, the value cell holds an integer below RANGE.
C3_RelationSound ==
    (Accepted /\ 0 \in q_decomposed /\ (0 .. (W - 1)) \subseteq q_range_check)
        => CellVal(value_col[0]) < consts.RANGE

\* C4: for v < RANGE the digit written to row i is floor(v / LOOKUP_RANGE^i)
\* mod LOOKUP_RANGE, for every i in 0..W-1.
C4_DigitsPositional ==
    (Checked /\ value < consts.RANGE)
        => \A k \in 0 .. (W - 1) : CellVal(value_decomposed[k]) = PositionalDigit(value, k)

\* C5: for v < RANGE the assigned digits recompose, with weights
\* LOOKUP_RANGE^i, to exactly v.
C5_RoundTrip == (Checked /\ value < consts.RANGE) => Recomposed(0) = value

\* C6: with RANGE=16, LOOKUP_RANGE=4, digit width 2: check(10) assigns digits
\* [2,2] and accepts; check(16) assigns [0,4] and is rejected at the lookup on row 1.
C6_Scenario ==
    /\ (Checked /\ value = 10) =>
          /\ CellVal(value_decomposed[0]) = 2
          /\ CellVal(value_decomposed[1]) = 2
          /\ failures = {}
    /\ (Checked /\ value = 16) =>
          /\ CellVal(value_decomposed[0]) = 0
          /\ CellVal(value_decomposed[1]) = 4
          /\ <<"lookup", 1>> \in failures

\* C7: on a row where q_lookup is 0 the lookup succeeds whatever the digit cell
\* holds; on a row where q_lookup is 1 it succeeds exactly when the digit cell
\* is one of 0..LOOKUP_RANGE-1.
C7_LookupGatedBySelector ==
    Checked =>
        \A r \in Rows :
            /\ r \notin q_range_check => <<"lookup", r>> \notin failures
            /\ r \in q_range_check =>
                  (<<"lookup", r>> \notin failures
                      <=> CellVal(value_decomposed[r]) \in 0 .. (consts.LOOKUP_RANGE - 1))

\* C7 witness: a verdict with a digit outside the table on a disabled row, which
\* is not reported, and one on an enabled row, which is.
C7_Witness ==
    /\ Checked
    /\ \E r \in Rows :
        /\ r \notin q_range_check
        /\ CellVal(value_decomposed[r]) >= consts.LOOKUP_RANGE
        /\ <<"lookup", r>> \notin failures
    /\ \E r \in q_range_check :
        /\ CellVal(value_decomposed[r]) >= consts.LOOKUP_RANGE
        /\ <<"lookup", r>> \in failures

\* C8: the gate fails on a row exactly when q_decompose is 1 there and the W
\* digit cells at offsets 0..W-1, weighted by LOOKUP_RANGE^i, do not sum to the
\* row's value cell; a row with q_decompose = 0 never fails.
C8_GateOnSelectedRows ==
    Checked =>
        \A r \in Rows :
            <<"gate", r>> \in failures
                <=> (r \in q_decomposed /\ Recomposed(r) # CellVal(value_col[r]))

\* C8 witness: a verdict where an enabled row violates the identity and is
\* reported, and a disabled row whose assigned cells violate it is not.
C8_Witness ==
    /\ Checked
    /\ \E r \in q_decomposed :
        Recomposed(r) # CellVal(value_col[r]) /\ <<"gate", r>> \in failures
    /\ \E r \in Rows \ q_decomposed :
        /\ value_col[r] # Unassigned
        /\ Recomposed(r) # CellVal(value_col[r])
        /\ <<"gate", r>> \notin failures

\* C9: a failed enable or cell assignment aborts the check with an error, and
\* synthesize returns Ok only when the value cell and all W digit cells were
\* written.
C9_AllOrNothing ==
    /\ (value_res = "err" \/ decomposed_res = "err") => synth_res # "ok"
    /\ synth_res = "ok" =>
          /\ value_col[0] # Unassigned
          /\ \A k \in 0 .. (W - 1) : value_decomposed[k] # Unassigned

\* Nothing has been assigned: no table entry, no cell, no selector.
NothingAssigned ==
    /\ table = {}
    /\ \A r \in Rows : value_col[r] = Unassigned /\ value_decomposed[r] = Unassigned
    /\ q_decomposed = {} /\ q_range_check = {}

\* C10 (as stated): with W > 0, configuration fails, before any assignment,
\* exactly when NUM_BITS * W exceeds 64.
C10_FailsAboveWidth ==
    (pc # "configure" /\ W > 0) => (pc = "panic" <=> consts.NUM_BITS * W > 64)

\* C10 (amended): configuration fails, before any assignment, exactly when
\* W = 0 or NUM_BITS * W is 64 or more; it succeeds when W > 0 and
\* NUM_BITS * W < 64.
C10_FailsAtWidth ==
    /\ pc # "configure" => (pc = "panic" <=> (W = 0 \/ consts.NUM_BITS * W >= 64))
    /\ pc \in {"configure", "panic"} => NothingAssigned

\* C10 witness: a build with NUM_BITS * W equal to 64 has failed to configure.
C10_Witness == pc = "panic" /\ W > 0 /\ consts.NUM_BITS * W = 64

\* Some cell has been assigned, some selector enabled or some region laid out.
SomethingAssigned ==
    \/ \E r \in Rows : value_col[r] # Unassigned \/ value_decomposed[r] # Unassigned
    \/ q_decomposed # {} \/ q_range_check # {}
    \/ regions # <<>>

\* C11: configuration completes before any cell is assigned, and the range
\* table is fully loaded before the value cell or any digit cell is assigned
\* and before any lookup is evaluated.
C11_LoadBeforeAssign ==
    /\ pc = "configure" => ~SomethingAssigned /\ table = {}
    /\ pc = "load" => ~SomethingAssigned
    /\ SomethingAssigned => table = LoadedTable(consts)
    /\ (pc = "verify" \/ failures # {}) => table = LoadedTable(consts)

\* C11 witness: a check ran to its verdict with the value and a digit assigned
\* after the load.
C11_Witness ==
    /\ Checked /\ table = LoadedTable(consts)
    /\ value_col[0] = value /\ value_decomposed[1] # Unassigned

\* C12: once loaded the table holds exactly the LOOKUP_RANGE distinct entries
\* 0 .. LOOKUP_RANGE-1, and no later operation changes it.
C12_TableFixed ==
    /\ [](table # {} =>
            /\ Cardinality(table) = consts.LOOKUP_RANGE
            /\ \A x \in 0 .. MaxValue : x \in table <=> x < consts.LOOKUP_RANGE
            /\ \A x \in table : x >= 0)
    /\ [][table # {} => table' = table]_vars

\* C12 witness: the checks after the load have run on the eight-entry table.
C12_Witness ==
    /\ pc = "done" /\ Cardinality(table) = LOOKUP_RANGE
    /\ value_decomposed[W - 1] # Unassigned

\* The cells a check writes: the value cell and its W digit cells.
CheckCells == {<<"value", 0>>} \cup {<<"value_decomposed", k>> : k \in 0 .. (W - 1)}

C14_NoSynthesisError ==
    /\ pc # "panic"
    /\ synth_res # "err" /\ value_res # "err" /\ decomposed_res # "err"
    /\ pc = "done" => synth_res = "ok"
    /\ failures \subseteq ({<<"gate", 0>>} \cup {<<"lookup", k>> : k \in 0 .. (W - 1)})

\* C14 witness: an out-of-range value was synthesized without error and is
\* reported by verification, by the gate and by a lookup.
C14_Witness ==
    /\ Checked /\ value >= consts.RANGE
    /\ <<"gate", 0>> \in failures
    /\ \E k \in 0 .. (W - 1) : <<"lookup", k>> \in failures

\* The absolute rows of a laid-out region.
RegionRows(rg) == rg.start .. (rg.start + rg.rows - 1)

\* C19: the value cell and the digit cells are assigned in two separate
\* regions, "Assign value" and "Assign decomposed values", and the absolute row
\* of the anchor equals the absolute row of digit row 0, so the gate enabled at
\* the anchor reads exactly the W digits the same check wrote at offsets 0..W-1.
C19_RegionsAligned ==
    /\ Len(regions) <= 2
    /\ Len(regions) >= 1 => regions[1].name = "Assign value" /\ regions[1].rows = 1
    /\ Len(regions) = 2 =>
          /\ regions[2].name = "Assign decomposed values" /\ regions[2].rows = W
          /\ regions[1].start + 0 = regions[2].start + 0
    /\ Checked =>
          /\ Len(regions) = 2
          /\ q_decomposed = {regions[1].start}
          /\ q_range_check = RegionRows(regions[2])
          /\ \A k \in 0 .. (W - 1) :
                LET read == (regions[1].start + k) % NumRows
                IN  /\ read = regions[2].start + k
                    /\ writes[<<"value_decomposed", read>>] = 1
                    /\ GateCell(value_decomposed, regions[1].start, k) = value_decomposed[read]
          /\ \A r \in Rows \ RegionRows(regions[2]) : value_decomposed[r] = Unassigned

\* C19 witness: both regions are laid out from the same row and the gate at the
\* anchor has been evaluated on a value with a non-zero digit.
C19_Witness ==
    /\ Checked /\ Len(regions) = 2
    /\ regions[1].start = regions[2].start
    /\ regions[1].start \in q_decomposed
    /\ \E k \in 1 .. (W - 1) : value_decomposed[regions[2].start + k] > 0

\* r_0 = v, r_(k+1) = r_k >> (NUM_BITS * k)
RECURSIVE Remainder(_, _)
Remainder(v, k) ==
    IF k = 0 THEN v
    ELSE Remainder(v, k - 1) \div Pow(2, consts.NUM_BITS * (k - 1))

C15_BruteForceRange ==
    /\ rc_pc = "done" =>
          /\ 0 \in rc_q_range_check /\ rc_value_col[0] = rc_value
          /\ (rc_failures = {}) <=> (rc_value \in 0 .. (rc_RANGE - 1))
          /\ (RangeCheckExpr(rc_RANGE, rc_value) = 0) <=> (rc_value < rc_RANGE)
    /\ (rc_pc = "done" /\ rc_RANGE = 10) =>
          /\ rc_value = 5 => rc_failures = {}
          /\ rc_value \in {10, 11} => rc_failures = {0}

\* C15 witness: with RANGE = 10 the check of 11 has ended in a failure of the
\* gate on row 0.
C15_Witness == rc_pc = "done" /\ rc_RANGE = 10 /\ rc_value = 11 /\ rc_failures = {0}

\* The rows the three-column circuit assigns: one by assign_first_row and one
\* by each assign_row.
FibRows == 0 .. (LoopTo - LoopFrom)

\* Every assigned row has a + b = c, and a and b of each later row are b and c
\* of the row before.
FibRowsChained ==
    /\ \A r \in FibRows :
          FAdd(fib_advice["a"][r], fib_advice["b"][r]) = fib_advice["c"][r]
    /\ \A r \in FibRows \ {0} :
          /\ fib_advice["a"][r] = fib_advice["b"][r - 1]
          /\ fib_advice["b"][r] = fib_advice["c"][r - 1]

\* C16: for every a, b, after assign_first_row and the seven assign_row steps
\* every row satisfies a + b = c, each later row's a and b equal the previous
\* row's b and c, and the circuit is satisfied; for a = b = 1 the last c is 55.
C16_FibonacciRows ==
    fib_pc = "done" =>
        /\ fib_selector = FibRows /\ Cardinality(FibRows) = 8
        /\ fib_advice["a"][0] = fib_a /\ fib_advice["b"][0] = fib_b
        /\ \A r \in FibRows, c \in {"a", "b", "c"} : fib_advice[c][r] # Unassigned
        /\ FibRowsChained
        /\ fib_failures = {}
        /\ (fib_a = 1 /\ fib_b = 1) => fib_advice["c"][LoopTo - LoopFrom] = 55

\* C16 witness: the run on a = b = 1 is verified with 55 in the last c cell.
C16_Witness ==
    /\ fib_pc = "done" /\ fib_a = 1 /\ fib_b = 1
    /\ fib_advice["c"][7] = 55 /\ fib_failures = {}

\* C17: in example1.rs with a = b = 1 every assigned row satisfies a + b = c
\* (the c written by assign_row is the sum of the row's copied a and b) and the
\* circuit is satisfied.
C17_Example1Satisfied ==
    (fib_pc = "done" /\ fib_a = 1 /\ fib_b = 1) =>
        /\ \A r \in FibRows :
              FAdd(fib_advice["a"][r], fib_advice["b"][r]) = fib_advice["c"][r]
        /\ fib_failures = {}

\* C18: in the single-column circuit with nrows = 10 the selector is enabled on
\* exactly the rows 0..nrows-3, every cell read by an enabled gate row is
\* assigned, and the circuit is satisfied if and only if the public instance
\* row 2 equals the cell at row nrows-1, the 10th term: 55 for 1, 1, so that
\* the public value 56 is rejected.
C18_SingleColumn ==
    f1_pc = "done" =>
        /\ f1_selector = 0 .. (nrows - 3)
        /\ \A r \in f1_selector, k \in 0 .. 2 :
              r + k < NumRows /\ f1_advice[r + k] # Unassigned
        /\ (f1_failures = {}) <=> (f1_instance[3] = f1_advice[nrows - 1])
        /\ (f1_instance[1] = 1 /\ f1_instance[2] = 1) =>
              /\ f1_advice[nrows - 1] = 55
              /\ f1_instance[3] = 55 => f1_failures = {}
              /\ f1_instance[3] = 56 => f1_failures # {}

\* C18 witness: the run on the public inputs 1, 1, 56 has been rejected, by the
\* constraint between instance row 2 and the last cell alone.
C18_Witness ==
    /\ f1_pc = "done" /\ f1_instance = <<1, 1, 56>>
    /\ f1_advice[9] = 55
    /\ f1_failures = {<<"copy", <<2, 9>>>>}

====
